---- MODULE Spec2Model ----
(***************************************************************************)
(* Disc packer (src/utils/disc_packer.py): First-Fit-Decreasing packing of *)
(* scanned files into bins, and materialisation of the resulting plan as a *)
(* staging tree of symlinks, hard links or copies.                         *)
(***************************************************************************)
EXTENDS Integers, Sequences, FiniteSets, TLC

\* ------------------------------- bounds -------------------------------- *\
MaxFiles == 3
MaxSize == 3
MaxCapacity == 4
MaxReserve == 1
MaxOverhead == 2
\* bounds of the materialiser's specification
MaxMatFiles == 2
MaxMatSize == 2
MaxMatCapacity == 2
MaxCalls == 3

VARIABLES
    files,              \* argument: the list of FileEntry, in scan order
    capacity,           \* argument
    reserve_bytes,      \* argument
    per_file_overhead,  \* argument
    files_sorted,       \* local of first_fit_decreasing
    pos,                \* position of the for loop in files_sorted (1-based)
    bins,               \* local: List[Bin]
    skipped,            \* local: List[FileEntry]
    pc,                 \* "sort" | "loop" | "done" | "AssertionError"
    runs,               \* number of the current call of first_fit_decreasing
    prev,               \* what the previous call was given and returned
    link_type,          \* argument of materialise_plan
    staging_exists,     \* the staging directory exists
    disc_dirs,          \* indexes NNN whose directory disc_NNN exists
    entries,            \* the entry at each destination <<NNN, base name>>
    mpc,                \* "idle" | "bins" | "files" | "returned" | "raised"
    bi,                 \* position of "for b in bins"
    fi,                 \* position of "for fe in b.files"
    error,              \* the exception that ended the call, "" when none
    calls,              \* number of calls of materialise_plan so far
    tree0,              \* the staging tree when the current call began
    prev_call,          \* link type and outcome of the call before
    args,               \* the command line of main, as given
    main_pc,            \* position in main, "none" when main is not running
    exit_status,        \* status the process ended with, -1 while it has not
    outputs,            \* what --export-json and --export-csv wrote
    log                 \* the calls main has made, in order

packer_vars == <<files, capacity, reserve_bytes, per_file_overhead, files_sorted,
                 pos, bins, skipped, pc, runs, prev>>

mat_vars == <<link_type, staging_exists, disc_dirs, entries, mpc, bi, fi, error,
              calls, tree0, prev_call>>

main_vars == <<args, main_pc, exit_status, outputs, log>>

vars == <<packer_vars, mat_vars, main_vars>>

\* ------------------------------ helpers -------------------------------- *\
max(a, b) == IF a >= b THEN a ELSE b

\* A scanned file: the scanner yields one entry per distinct path.
FileEntry(dir, name, size) == [path |-> [dir |-> dir, name |-> name], size |-> size]

\* Bin(index=..., capacity=..., reserve_bytes=...): used = 0, files = []
Bin_index_from_zero(index, cap, reserve) ==
    [index |-> index - 1, capacity |-> cap, reserve_bytes |-> reserve,
     used |-> 0, files |-> <<>>]

Bin(index, cap, reserve) ==
    [index |-> index, capacity |-> cap, reserve_bytes |-> reserve,
     used |-> 0, files |-> <<>>]

effective_capacity(b) == max(0, b.capacity - b.reserve_bytes)

remaining(b) == effective_capacity(b) - b.used

\* Bin.try_add: the returned flag and the bin after the call.
try_add_no_overhead(b, fe, overhead) ==
    LET needed == fe.size + overhead
    IN  IF needed <= remaining(b)
        THEN [ok |-> TRUE,
              bin |-> [b EXCEPT !.files = Append(@, fe), !.used = @ + fe.size]]
        ELSE [ok |-> FALSE, bin |-> b]

try_add_no_append(b, fe, overhead) ==
    LET needed == fe.size + overhead
    IN  IF needed <= remaining(b)
        THEN [ok |-> TRUE, bin |-> [b EXCEPT !.used = @ + needed]]
        ELSE [ok |-> FALSE, bin |-> b]

try_add(b, fe, overhead) ==
    LET needed == fe.size + overhead
    IN  IF needed <= remaining(b)
        THEN [ok |-> TRUE,
              bin |-> [b EXCEPT !.files = Append(@, fe), !.used = @ + needed]]
        ELSE [ok |-> FALSE, bin |-> b]

\* sorted(files, key=size, reverse=True): a stable sort, so entries of equal
\* size keep their input order.  Insertion behind every entry at least as big.
RECURSIVE insert_desc_ties_reversed(_, _)
insert_desc_ties_reversed(s, fe) ==
    IF s = <<>> THEN <<fe>>
    ELSE IF Head(s).size > fe.size
         THEN <<Head(s)>> \o insert_desc_ties_reversed(Tail(s), fe)
         ELSE <<fe>> \o s

RECURSIVE insert_desc(_, _)
insert_desc(s, fe) ==
    IF s = <<>> THEN <<fe>>
    ELSE IF Head(s).size >= fe.size
         THEN <<Head(s)>> \o insert_desc(Tail(s), fe)
         ELSE <<fe>> \o s

RECURSIVE sorted_desc(_)
sorted_desc(s) ==
    IF s = <<>> THEN <<>>
    ELSE insert_desc(sorted_desc(SubSeq(s, 1, Len(s) - 1)), s[Len(s)])

\* The "for b in bins: if b.try_add(...): break" scan: index of the bin that
\* takes fe, 0 when none does.
last_fit(bs, fe, overhead) ==
    LET fits == {i \in 1..Len(bs) : try_add(bs[i], fe, overhead).ok}
    IN  IF fits = {} THEN 0 ELSE CHOOSE i \in fits : \A j \in fits : j <= i

first_fit(bs, fe, overhead) ==
    LET fits == {i \in 1..Len(bs) : try_add(bs[i], fe, overhead).ok}
    IN  IF fits = {} THEN 0 ELSE CHOOSE i \in fits : \A j \in fits : i <= j

too_big_thresh ==
    max(0, max(0, capacity - reserve_bytes) - per_file_overhead)

NoResult == [bins |-> <<>>, skipped |-> <<>>, capacity |-> 0, returned |-> FALSE]

\* ------------------------------- packer -------------------------------- *\
SizeSeqs == UNION {[1..n -> 0..MaxSize] : n \in 0..MaxFiles}

InitPacker ==
    /\ \E sizes \in SizeSeqs :
          files = [i \in 1..Len(sizes) |-> FileEntry(i, "f", sizes[i])]
    /\ capacity \in 0..MaxCapacity
    /\ reserve_bytes \in 0..MaxReserve
    /\ per_file_overhead \in 0..MaxOverhead
    /\ files_sorted = <<>>
    /\ pos = 1
    /\ bins = <<>>
    /\ skipped = <<>>
    /\ pc = "sort"
    /\ runs = 1
    /\ prev = NoResult

\* ----------------------------- staging tree ---------------------------- *\
Names == {"a", "b"}

Strategies == {"symlink", "hardlink", "copy"}

\* The three strategies and a value that is none of them.
LinkTypes == Strategies \cup {"move"}

Absent == [kind |-> "absent"]

\* What each strategy leaves at the destination for source path p: a symbolic
\* link to p, another name of p's inode, or a file of its own with p's bytes.
Produced(lt, p) == [kind |-> lt, src |-> p]

\* dest = staging_dir / f"disc_{b.index:03d}" / fe.path.name
DestPaths == (1..MaxMatFiles) \X Names

Dest(b, fe) == <<b.index, fe.path.name>>

\* f"disc_{b.index:03d}": the decimal digits of the index, padded with zeros to
\* three (an index of 1000 or more takes the digits it needs).
RECURSIVE digits(_)
digits(n) == IF n < 10 THEN <<n>> ELSE digits(n \div 10) \o <<n % 10>>

disc_name(index) ==
    LET d == digits(index)
    IN  [i \in 1..(3 - Len(d)) |-> 0] \o d

Tree == [staging |-> staging_exists, dirs |-> disc_dirs, entries |-> entries]

InitStaging ==
    /\ link_type = "symlink"
    /\ staging_exists = FALSE
    /\ disc_dirs = {}
    /\ entries = [d \in DestPaths |-> Absent]
    /\ mpc = "idle"
    /\ bi = 1
    /\ fi = 1
    /\ error = ""
    /\ calls = 0
    /\ tree0 = [staging |-> FALSE, dirs |-> {}, entries |-> [d \in DestPaths |-> Absent]]
    /\ prev_call = [link_type |-> "", outcome |-> "none"]

\* main is not running: first_fit_decreasing and materialise_plan are called
\* directly.
NoArgs ==
    [profile |-> "", capacity |-> <<>>, unit |-> "GiB", reserve |-> 0,
     per_file_overhead |-> 0, export_json |-> FALSE, export_csv |-> FALSE,
     materialise |-> FALSE, link_type |-> "symlink"]

NoOutputs == [json |-> <<>>, csv |-> <<>>]

InitNoMain ==
    /\ args = NoArgs
    /\ main_pc = "none"
    /\ exit_status = -1
    /\ outputs = NoOutputs
    /\ log = <<>>

Init == InitPacker /\ InitStaging /\ InitNoMain

SortArbitraryTies ==
    /\ pc = "sort"
    /\ \E idx \in [1..Len(files) -> 1..Len(files)] :
          LET t == [i \in 1..Len(files) |-> files[idx[i]]]
          IN  /\ \A i, j \in 1..Len(files) : i # j => idx[i] # idx[j]
              /\ \A i \in 1..(Len(files) - 1) : t[i].size >= t[i + 1].size
              /\ files_sorted' = t
    /\ bins' = <<>>
    /\ skipped' = <<>>
    /\ pos' = 1
    /\ pc' = "loop"
    /\ UNCHANGED <<files, capacity, reserve_bytes, per_file_overhead, runs, prev>>
    /\ UNCHANGED mat_vars
    /\ UNCHANGED main_vars

Sort ==
    /\ pc = "sort"
    /\ files_sorted' = sorted_desc(files)
    /\ bins' = <<>>
    /\ skipped' = <<>>
    /\ pos' = 1
    /\ pc' = "loop"
    /\ UNCHANGED <<files, capacity, reserve_bytes, per_file_overhead, runs, prev>>
    /\ UNCHANGED mat_vars
    /\ UNCHANGED main_vars

SkipInverted ==
    /\ pc = "loop"
    /\ pos <= Len(files_sorted)
    /\ files_sorted[pos].size < too_big_thresh
    /\ skipped' = Append(skipped, files_sorted[pos])
    /\ pos' = pos + 1
    /\ UNCHANGED <<files, capacity, reserve_bytes, per_file_overhead, files_sorted,
                   bins, pc, runs, prev>>
    /\ UNCHANGED mat_vars
    /\ UNCHANGED main_vars

Skip ==
    /\ pc = "loop"
    /\ pos <= Len(files_sorted)
    /\ files_sorted[pos].size > too_big_thresh
    /\ skipped' = Append(skipped, files_sorted[pos])
    /\ pos' = pos + 1
    /\ UNCHANGED <<files, capacity, reserve_bytes, per_file_overhead, files_sorted,
                   bins, pc, runs, prev>>
    /\ UNCHANGED mat_vars
    /\ UNCHANGED main_vars

PlaceExisting ==
    /\ pc = "loop"
    /\ pos <= Len(files_sorted)
    /\ ~(files_sorted[pos].size > too_big_thresh)
    /\ LET fe == files_sorted[pos]
           k == first_fit(bins, fe, per_file_overhead)
       IN  /\ k # 0
           /\ bins' = [bins EXCEPT ![k] = try_add(bins[k], fe, per_file_overhead).bin]
    /\ pos' = pos + 1
    /\ UNCHANGED <<files, capacity, reserve_bytes, per_file_overhead, files_sorted,
                   skipped, pc, runs, prev>>
    /\ UNCHANGED mat_vars
    /\ UNCHANGED main_vars

OpenNewBin ==
    /\ pc = "loop"
    /\ pos <= Len(files_sorted)
    /\ ~(files_sorted[pos].size > too_big_thresh)
    /\ LET fe == files_sorted[pos]
           new_bin == Bin(Len(bins) + 1, capacity, reserve_bytes)
           r == try_add(new_bin, fe, per_file_overhead)
       IN  /\ first_fit(bins, fe, per_file_overhead) = 0
           /\ r.ok
           /\ bins' = Append(bins, r.bin)
    /\ pos' = pos + 1
    /\ UNCHANGED <<files, capacity, reserve_bytes, per_file_overhead, files_sorted,
                   skipped, pc, runs, prev>>
    /\ UNCHANGED mat_vars
    /\ UNCHANGED main_vars

\* "assert new_bin.try_add(fe, per_file_overhead)  # must fit" fails: the call
\* ends with AssertionError and returns nothing.
AssertFail ==
    /\ pc = "loop"
    /\ pos <= Len(files_sorted)
    /\ ~(files_sorted[pos].size > too_big_thresh)
    /\ LET fe == files_sorted[pos]
           new_bin == Bin(Len(bins) + 1, capacity, reserve_bytes)
       IN  /\ first_fit(bins, fe, per_file_overhead) = 0
           /\ ~try_add(new_bin, fe, per_file_overhead).ok
    /\ pc' = "AssertionError"
    /\ UNCHANGED <<files, capacity, reserve_bytes, per_file_overhead, files_sorted,
                   pos, bins, skipped, runs, prev>>
    /\ UNCHANGED mat_vars
    /\ UNCHANGED main_vars

Return ==
    /\ pc = "loop"
    /\ pos > Len(files_sorted)
    /\ pc' = "done"
    /\ UNCHANGED <<files, capacity, reserve_bytes, per_file_overhead, files_sorted,
                   pos, bins, skipped, runs, prev>>
    /\ UNCHANGED mat_vars
    /\ UNCHANGED main_vars

\* A second call on the same file list, reserve and overhead, with a capacity
\* at least as large (the same capacity included).
Rerun ==
    /\ pc = "done"
    /\ runs = 1
    /\ prev' = [bins |-> bins, skipped |-> skipped, capacity |-> capacity,
                returned |-> TRUE]
    /\ \E c2 \in capacity..MaxCapacity : capacity' = c2
    /\ runs' = 2
    /\ files_sorted' = <<>>
    /\ pos' = 1
    /\ bins' = <<>>
    /\ skipped' = <<>>
    /\ pc' = "sort"
    /\ UNCHANGED <<files, reserve_bytes, per_file_overhead>>
    /\ UNCHANGED mat_vars
    /\ UNCHANGED main_vars

Next ==
    \/ Sort
    \/ Skip
    \/ PlaceExisting
    \/ OpenNewBin
    \/ AssertFail
    \/ Return
    \/ Rerun

Spec == Init /\ [][Next]_vars


\* ----------------------------- materialiser ---------------------------- *\
\* The plans materialised: what first_fit_decreasing returns for a few files
\* with base names, some of them equal (the scan is recursive).
MatFileSeqs ==
    UNION {[1..n -> Names \X (1..MaxMatSize)] : n \in 0..MaxMatFiles}

InitMat ==
    /\ \E fs \in MatFileSeqs :
          files = [i \in 1..Len(fs) |-> FileEntry(i, fs[i][1], fs[i][2])]
    /\ capacity \in 1..MaxMatCapacity
    /\ reserve_bytes = 0
    /\ per_file_overhead = 0
    /\ files_sorted = <<>>
    /\ pos = 1
    /\ bins = <<>>
    /\ skipped = <<>>
    /\ pc = "sort"
    /\ runs = 1
    /\ prev = NoResult
    /\ InitStaging
    /\ InitNoMain

\* materialise_plan(bins, staging_dir, link_type) is called on the returned
\* plan: staging_dir.mkdir(parents=True, exist_ok=True), then the loop.
MatCall ==
    /\ pc = "done"
    /\ mpc \in {"idle", "returned", "raised"}
    /\ calls < MaxCalls
    /\ \E lt \in LinkTypes : link_type' = lt
    /\ calls' = calls + 1
    /\ tree0' = Tree
    /\ prev_call' = [link_type |-> (IF calls = 0 THEN "" ELSE link_type),
                     outcome |-> (IF calls = 0 THEN "none" ELSE mpc)]
    /\ staging_exists' = TRUE
    /\ error' = ""
    /\ bi' = 1
    /\ fi' = 1
    /\ mpc' = "bins"
    /\ UNCHANGED <<disc_dirs, entries>>
    /\ UNCHANGED packer_vars
    /\ UNCHANGED main_vars

\* out_dir.mkdir(parents=True, exist_ok=True)
MatBinDir ==
    /\ mpc = "bins"
    /\ bi <= Len(bins)
    /\ disc_dirs' = disc_dirs \cup {bins[bi].index}
    /\ fi' = 1
    /\ mpc' = "files"
    /\ UNCHANGED <<link_type, staging_exists, entries, bi, error, calls, tree0, prev_call>>
    /\ UNCHANGED packer_vars
    /\ UNCHANGED main_vars

AtFile == mpc = "files" /\ fi <= Len(bins[bi].files)

\* dest.symlink_to(fe.path); on FileExistsError: dest.unlink(), then again.
MatSymlink ==
    /\ AtFile
    /\ link_type = "symlink"
    /\ LET fe == bins[bi].files[fi]
       IN  entries' = [entries EXCEPT ![Dest(bins[bi], fe)] = Produced("symlink", fe.path)]
    /\ fi' = fi + 1
    /\ UNCHANGED <<link_type, staging_exists, disc_dirs, mpc, bi, error, calls, tree0,
                   prev_call>>
    /\ UNCHANGED packer_vars
    /\ UNCHANGED main_vars

\* os.link(fe.path, dest); on FileExistsError: dest.unlink(), then again.
MatHardlink ==
    /\ AtFile
    /\ link_type = "hardlink"
    /\ LET fe == bins[bi].files[fi]
       IN  entries' = [entries EXCEPT ![Dest(bins[bi], fe)] = Produced("hardlink", fe.path)]
    /\ fi' = fi + 1
    /\ UNCHANGED <<link_type, staging_exists, disc_dirs, mpc, bi, error, calls, tree0,
                   prev_call>>
    /\ UNCHANGED packer_vars
    /\ UNCHANGED main_vars

\* shutil.copy2(src, dst) on the entry e found at dst.  It neither unlinks nor
\* catches anything: it raises SameFileError when dst is src itself (a hard link
\* of src, or a symbolic link to src, since the test follows links); otherwise
\* it opens dst for writing, which creates a missing file, rewrites a file of
\* its own, and writes through a link to another source, leaving the link.
copy2(e, src) ==
    IF e = Absent \/ e.kind = "copy"
    THEN [raised |-> FALSE, entry |-> Produced("copy", src)]
    ELSE IF e.src = src
         THEN [raised |-> TRUE, entry |-> e]
         ELSE [raised |-> FALSE, entry |-> e]

MatCopy ==
    /\ AtFile
    /\ link_type = "copy"
    /\ LET fe == bins[bi].files[fi]
           d == Dest(bins[bi], fe)
           r == copy2(entries[d], fe.path)
       IN  /\ ~r.raised
           /\ entries' = [entries EXCEPT ![d] = r.entry]
    /\ fi' = fi + 1
    /\ UNCHANGED <<link_type, staging_exists, disc_dirs, mpc, bi, error, calls, tree0,
                   prev_call>>
    /\ UNCHANGED packer_vars
    /\ UNCHANGED main_vars

MatCopySameFile ==
    /\ AtFile
    /\ link_type = "copy"
    /\ LET fe == bins[bi].files[fi]
       IN  copy2(entries[Dest(bins[bi], fe)], fe.path).raised
    /\ error' = "SameFileError"
    /\ mpc' = "raised"
    /\ UNCHANGED <<link_type, staging_exists, disc_dirs, entries, bi, fi, calls, tree0,
                   prev_call>>
    /\ UNCHANGED packer_vars
    /\ UNCHANGED main_vars

\* else: raise ValueError(f"Unknown link type: {link_type}")
MatUnknownLinkType ==
    /\ AtFile
    /\ link_type \notin Strategies
    /\ error' = "ValueError"
    /\ mpc' = "raised"
    /\ UNCHANGED <<link_type, staging_exists, disc_dirs, entries, bi, fi, calls, tree0,
                   prev_call>>
    /\ UNCHANGED packer_vars
    /\ UNCHANGED main_vars

\* end of "for fe in b.files": the next bin
MatNextBin ==
    /\ mpc = "files"
    /\ fi > Len(bins[bi].files)
    /\ bi' = bi + 1
    /\ mpc' = "bins"
    /\ UNCHANGED <<link_type, staging_exists, disc_dirs, entries, fi, error, calls, tree0,
                   prev_call>>
    /\ UNCHANGED packer_vars
    /\ UNCHANGED main_vars

\* end of "for b in bins": the call returns None
MatReturn ==
    /\ mpc = "bins"
    /\ bi > Len(bins)
    /\ mpc' = "returned"
    /\ UNCHANGED <<link_type, staging_exists, disc_dirs, entries, bi, fi, error, calls,
                   tree0, prev_call>>
    /\ UNCHANGED packer_vars
    /\ UNCHANGED main_vars

NextMat ==
    \/ Sort
    \/ Skip
    \/ PlaceExisting
    \/ OpenNewBin
    \/ Return
    \/ MatCall
    \/ MatBinDir
    \/ MatSymlink
    \/ MatHardlink
    \/ MatCopy
    \/ MatCopySameFile
    \/ MatUnknownLinkType
    \/ MatNextBin
    \/ MatReturn

SpecMat == InitMat /\ [][NextMat]_vars


\* ------------------- materialiser, failing system calls ---------------- *\
\* The link branches catch FileExistsError alone, the copy branch catches
\* nothing: any other OSError (permission denied, cross-device link, missing
\* source, no space) leaves materialise_plan at once.

\* symlink_to / os.link fails on the first attempt, or dest.unlink() fails
\* after FileExistsError: nothing at the destination has changed.
MatLinkError ==
    /\ AtFile
    /\ link_type \in {"symlink", "hardlink"}
    /\ error' = "OSError"
    /\ mpc' = "raised"
    /\ UNCHANGED <<link_type, staging_exists, disc_dirs, entries, bi, fi, calls, tree0,
                   prev_call>>
    /\ UNCHANGED packer_vars
    /\ UNCHANGED main_vars

\* The destination exists: FileExistsError, dest.unlink() succeeds, and the
\* second symlink_to / os.link fails (a cross-device os.link reports the
\* existing destination first): the old entry is gone.
MatRelinkError ==
    /\ AtFile
    /\ link_type \in {"symlink", "hardlink"}
    /\ LET d == Dest(bins[bi], bins[bi].files[fi])
       IN  /\ entries[d] # Absent
           /\ entries' = [entries EXCEPT ![d] = Absent]
    /\ error' = "OSError"
    /\ mpc' = "raised"
    /\ UNCHANGED <<link_type, staging_exists, disc_dirs, bi, fi, calls, tree0, prev_call>>
    /\ UNCHANGED packer_vars
    /\ UNCHANGED main_vars

\* shutil.copy2 fails: before it opened the destination (nothing changed), or
\* while writing a file of its own (an incomplete copy is left behind).
MatCopyError ==
    /\ AtFile
    /\ link_type = "copy"
    /\ LET fe == bins[bi].files[fi]
           d == Dest(bins[bi], fe)
       IN  /\ ~copy2(entries[d], fe.path).raised
           /\ \/ UNCHANGED entries
              \/ /\ entries[d] = Absent \/ entries[d].kind \in {"copy", "incomplete"}
                 /\ entries' = [entries EXCEPT ![d] = Produced("incomplete", fe.path)]
    /\ error' = "OSError"
    /\ mpc' = "raised"
    /\ UNCHANGED <<link_type, staging_exists, disc_dirs, bi, fi, calls, tree0, prev_call>>
    /\ UNCHANGED packer_vars
    /\ UNCHANGED main_vars

NextFault ==
    \/ NextMat
    \/ MatLinkError
    \/ MatRelinkError
    \/ MatCopyError

SpecFault == InitMat /\ [][NextFault]_vars


\* --------------------------------- main -------------------------------- *\
\* MEDIA_PROFILES and UNIT_FACTORS.  The arms are evaluated on demand: byte
\* counts above 2^31 - 1 are beyond the checker's integers, so the runs drawn
\* below resolve to capacities within them.
MEDIA_PROFILES(name) ==
    CASE name = "dvd5" -> 4700 * 1000000 + 372992
      [] name = "dvd9" -> 8540 * 1000000
      [] name = "cd700" -> 700 * 1000000
      [] name = "bdr25" -> 25 * 1000 * 1000000
      [] name = "bdr50" -> 50 * 1000 * 1000000

ProfileNames == {"dvd5", "dvd9", "cd700", "bdr25", "bdr50"}

UNIT_FACTORS(unit) ==
    CASE unit = "B" -> 1
      [] unit = "KB" -> 1000
      [] unit = "KiB" -> 1024
      [] unit = "MB" -> 1000000
      [] unit = "MiB" -> 1024 * 1024
      [] unit = "GB" -> 1000 * 1000000
      [] unit = "GiB" -> 1024 * 1024 * 1024

UnitNames == {"B", "KB", "KiB", "MB", "MiB", "GB", "GiB"}

\* parse_args: argparse accepts --profile, --unit and --link-type only from
\* their choices (--profile may be absent) and otherwise exits with status 2.
args_valid_any_link_type(a) ==
    /\ a.profile \in ProfileNames \cup {""}
    /\ a.unit \in UnitNames

args_valid(a) ==
    /\ a.profile \in ProfileNames \cup {""}
    /\ a.unit \in UnitNames
    /\ a.link_type \in Strategies

resolve_capacity(a) ==
    IF a.profile # "" THEN MEDIA_PROFILES(a.profile)
    ELSE IF a.capacity # <<>> THEN a.capacity[1] * UNIT_FACTORS(a.unit)
    ELSE MEDIA_PROFILES("dvd5")

\* int(capacity * (args.reserve / 100.0)) if args.reserve else 0, for a whole
\* percentage (the runs drawn use 0 and 50, which floating point holds exactly).
reserve_of(cap, percent) ==
    IF percent = 0 THEN 0
    ELSE (cap \div 100) * percent + ((cap % 100) * percent) \div 100

\* str(fe.path)
path_str(path) == <<"dir", path.dir, "/", path.name>>

file_record(fe) == [path |-> path_str(fe.path), size |-> fe.size]

\* Bin.utilisation: used / effective_capacity as a fraction, 0.0 for a bin of
\* effective capacity 0.
utilisation(b) ==
    IF effective_capacity(b) = 0 THEN <<0, 1>> ELSE <<b.used, effective_capacity(b)>>

bin_record_first_file_only(b) ==
    [index |-> b.index, capacity_bytes |-> b.capacity, reserve_bytes |-> b.reserve_bytes,
     effective_capacity_bytes |-> effective_capacity(b), used_bytes |-> b.used,
     utilisation |-> utilisation(b),
     files |-> [i \in 1..1 |-> file_record(b.files[i])]]

bin_record(b) ==
    [index |-> b.index, capacity_bytes |-> b.capacity, reserve_bytes |-> b.reserve_bytes,
     effective_capacity_bytes |-> effective_capacity(b), used_bytes |-> b.used,
     utilisation |-> utilisation(b),
     files |-> [i \in DOMAIN b.files |-> file_record(b.files[i])]]

\* export_json: the object written (and read back by a JSON parser).
export_json(bs, sk) ==
    [bins |-> [k \in DOMAIN bs |-> bin_record(bs[k])],
     skipped |-> [i \in DOMAIN sk |-> file_record(sk[i])]]

\* export_csv: the header row, then one row per packed file.
RECURSIVE csv_rows(_)
csv_rows(bs) ==
    IF bs = <<>> THEN <<>>
    ELSE [i \in DOMAIN Head(bs).files |->
             <<Head(bs).index, path_str(Head(bs).files[i].path), Head(bs).files[i].size>>]
         \o csv_rows(Tail(bs))

export_csv(bs) == <<<<"disc_index", "file_path", "size_bytes">>>> \o csv_rows(bs)

\* The command lines drawn: a profile, known or not, or else a capacity in
\* bytes or kilobytes; any value for --unit and --link-type.
ArgSets ==
    [profile : {"", "cd700", "bogus"},
     capacity : {<<>>} \cup {<<c>> : c \in 0..MaxMatCapacity},
     unit : {"B", "KB", "bogus"},
     reserve : {0, 50},
     per_file_overhead : {0, 1},
     export_json : BOOLEAN,
     export_csv : BOOLEAN,
     materialise : BOOLEAN,
     link_type : LinkTypes]

\* What scan_files may return: any list of files (empty files included), here
\* all of one base name in different directories.
ScanResults ==
    UNION {[1..n -> 0..MaxMatSize] : n \in 0..MaxMatFiles}

InitMain ==
    /\ args \in {a \in ArgSets : (a.profile = "") # (a.capacity = <<>>)}
    /\ main_pc = "parse_args"
    /\ exit_status = -1
    /\ outputs = NoOutputs
    /\ log = <<>>
    /\ files = <<>>
    /\ capacity = 0
    /\ reserve_bytes = 0
    /\ per_file_overhead = 0
    /\ files_sorted = <<>>
    /\ pos = 1
    /\ bins = <<>>
    /\ skipped = <<>>
    /\ pc = "idle"
    /\ runs = 1
    /\ prev = NoResult
    /\ InitStaging

\* args = parse_args(argv)
MainParseArgs ==
    /\ main_pc = "parse_args"
    /\ args_valid(args)
    /\ main_pc' = "resolve_capacity"
    /\ UNCHANGED <<args, exit_status, outputs, log>>
    /\ UNCHANGED packer_vars
    /\ UNCHANGED mat_vars

MainParseArgsError ==
    /\ main_pc = "parse_args"
    /\ ~args_valid(args)
    /\ exit_status' = 2
    /\ main_pc' = "exited"
    /\ UNCHANGED <<args, outputs, log>>
    /\ UNCHANGED packer_vars
    /\ UNCHANGED mat_vars

\* capacity = resolve_capacity(args); reserve_bytes = ...
MainResolveCapacity ==
    /\ main_pc = "resolve_capacity"
    /\ capacity' = resolve_capacity(args)
    /\ reserve_bytes' = reserve_of(resolve_capacity(args), args.reserve)
    /\ per_file_overhead' = args.per_file_overhead
    /\ log' = Append(log, "resolve_capacity")
    /\ main_pc' = "scan_files"
    /\ UNCHANGED <<args, exit_status, outputs>>
    /\ UNCHANGED <<files, files_sorted, pos, bins, skipped, pc, runs, prev>>
    /\ UNCHANGED mat_vars

\* files = scan_files(...)
MainScan ==
    /\ main_pc = "scan_files"
    /\ \E sizes \in ScanResults :
          files' = [i \in 1..Len(sizes) |-> FileEntry(i, "a", sizes[i])]
    /\ log' = Append(log, "scan_files")
    /\ main_pc' = "scanned"
    /\ UNCHANGED <<args, exit_status, outputs>>
    /\ UNCHANGED <<capacity, reserve_bytes, per_file_overhead, files_sorted, pos, bins,
                   skipped, pc, runs, prev>>
    /\ UNCHANGED mat_vars

\* if not files: ... return 2
MainNoFilesReturnsZero ==
    /\ main_pc = "scanned"
    /\ files = <<>>
    /\ exit_status' = 0
    /\ main_pc' = "exited"
    /\ UNCHANGED <<args, outputs, log>>
    /\ UNCHANGED packer_vars
    /\ UNCHANGED mat_vars

MainNoFiles ==
    /\ main_pc = "scanned"
    /\ files = <<>>
    /\ exit_status' = 2
    /\ main_pc' = "exited"
    /\ UNCHANGED <<args, outputs, log>>
    /\ UNCHANGED packer_vars
    /\ UNCHANGED mat_vars

\* bins, skipped = first_fit_decreasing(...): the call is entered
MainPack ==
    /\ main_pc = "scanned"
    /\ files # <<>>
    /\ pc' = "sort"
    /\ log' = Append(log, "first_fit_decreasing")
    /\ main_pc' = "pack"
    /\ UNCHANGED <<args, exit_status, outputs>>
    /\ UNCHANGED <<files, capacity, reserve_bytes, per_file_overhead, files_sorted, pos,
                   bins, skipped, runs, prev>>
    /\ UNCHANGED mat_vars

\* the call returned; the summary is printed
MainPacked ==
    /\ main_pc = "pack"
    /\ pc = "done"
    /\ main_pc' = "export_json"
    /\ UNCHANGED <<args, exit_status, outputs, log>>
    /\ UNCHANGED packer_vars
    /\ UNCHANGED mat_vars

\* an exception nobody catches leaves main: the interpreter exits with status 1
MainAssertionError ==
    /\ main_pc = "pack"
    /\ pc = "AssertionError"
    /\ exit_status' = 1
    /\ main_pc' = "exited"
    /\ UNCHANGED <<args, outputs, log>>
    /\ UNCHANGED packer_vars
    /\ UNCHANGED mat_vars

\* if args.export_json: export_json(bins, skipped, args.export_json)
MainExportJson ==
    /\ main_pc = "export_json"
    /\ IF args.export_json
       THEN /\ outputs' = [outputs EXCEPT !.json = <<export_json(bins, skipped)>>]
            /\ log' = Append(log, "export_json")
       ELSE UNCHANGED <<outputs, log>>
    /\ main_pc' = "export_csv"
    /\ UNCHANGED <<args, exit_status>>
    /\ UNCHANGED packer_vars
    /\ UNCHANGED mat_vars

\* if args.export_csv: export_csv(bins, args.export_csv)
MainExportCsv ==
    /\ main_pc = "export_csv"
    /\ IF args.export_csv
       THEN /\ outputs' = [outputs EXCEPT !.csv = <<export_csv(bins)>>]
            /\ log' = Append(log, "export_csv")
       ELSE UNCHANGED <<outputs, log>>
    /\ main_pc' = "materialise"
    /\ UNCHANGED <<args, exit_status>>
    /\ UNCHANGED packer_vars
    /\ UNCHANGED mat_vars

\* if args.materialise: materialise_plan(bins, args.materialise, args.link_type)
\* is entered (staging_dir.mkdir), into a staging directory not there before
MainMaterialise ==
    /\ main_pc = "materialise"
    /\ args.materialise
    /\ link_type' = args.link_type
    /\ calls' = calls + 1
    /\ tree0' = Tree
    /\ staging_exists' = TRUE
    /\ error' = ""
    /\ bi' = 1
    /\ fi' = 1
    /\ mpc' = "bins"
    /\ log' = Append(log, "materialise_plan")
    /\ main_pc' = "materialise_plan"
    /\ UNCHANGED <<disc_dirs, entries, prev_call>>
    /\ UNCHANGED <<args, exit_status, outputs>>
    /\ UNCHANGED packer_vars

\* return 0
MainReturn ==
    /\ \/ main_pc = "materialise" /\ ~args.materialise
       \/ main_pc = "materialise_plan" /\ mpc = "returned"
    /\ exit_status' = 0
    /\ main_pc' = "exited"
    /\ UNCHANGED <<args, outputs, log>>
    /\ UNCHANGED packer_vars
    /\ UNCHANGED mat_vars

\* materialise_plan raised: the interpreter exits with status 1
MainMaterialiseError ==
    /\ main_pc = "materialise_plan"
    /\ mpc = "raised"
    /\ exit_status' = 1
    /\ main_pc' = "exited"
    /\ UNCHANGED <<args, outputs, log>>
    /\ UNCHANGED packer_vars
    /\ UNCHANGED mat_vars

\* One run of main into a fresh staging directory, system calls of the
\* materialiser failing or not.
NextMain ==
    \/ MainParseArgs
    \/ MainParseArgsError
    \/ MainResolveCapacity
    \/ MainScan
    \/ MainNoFiles
    \/ MainPack
    \/ Sort
    \/ Skip
    \/ PlaceExisting
    \/ OpenNewBin
    \/ AssertFail
    \/ Return
    \/ MainPacked
    \/ MainAssertionError
    \/ MainExportJson
    \/ MainExportCsv
    \/ MainMaterialise
    \/ MatBinDir
    \/ MatSymlink
    \/ MatHardlink
    \/ MatCopy
    \/ MatNextBin
    \/ MatReturn
    \/ MatLinkError
    \/ MatRelinkError
    \/ MatCopyError
    \/ MainReturn
    \/ MainMaterialiseError

SpecMain == InitMain /\ [][NextMain]_vars

\* ------------------------- packer properties --------------------------- *\
Range(s) == {s[i] : i \in DOMAIN s}

Count(s, fe) == Cardinality({i \in DOMAIN s : s[i] = fe})

RECURSIVE CountInBins(_, _)
CountInBins(bs, fe) ==
    IF bs = <<>> THEN 0 ELSE Count(Head(bs).files, fe) + CountInBins(Tail(bs), fe)

RECURSIVE SumNeeded(_, _)
SumNeeded(fs, overhead) ==
    IF fs = <<>> THEN 0 ELSE Head(fs).size + overhead + SumNeeded(Tail(fs), overhead)

\* The entries the loop has dealt with so far.
Processed ==
    IF pc \in {"loop", "done", "AssertionError"}
    THEN {files_sorted[i] : i \in 1..(pos - 1)}
    ELSE {}

InSomeBin(fe) == \E k \in DOMAIN bins : fe \in Range(bins[k].files)

\* C1: in the result first_fit_decreasing returns, every input file occurs
\* exactly once in total across the bins' file lists and the skipped list.
C1_Partition ==
    pc = "done" =>
        \A i \in DOMAIN files :
            CountInBins(bins, files[i]) + Count(skipped, files[i]) = 1

C1_Witness ==
    /\ pc = "done"
    /\ Len(files) = MaxFiles
    /\ Len(bins) >= 2
    /\ Len(skipped) >= 1

\* C2: at every step every bin has used <= effective_capacity, with
\* effective_capacity = max(0, capacity - reserve_bytes), and used is exactly
\* the sum of size + per_file_overhead over the bin's files.
C2_CapacityInvariant ==
    \A k \in DOMAIN bins :
        /\ effective_capacity(bins[k]) = max(0, capacity - reserve_bytes)
        /\ bins[k].used <= effective_capacity(bins[k])
        /\ bins[k].used = SumNeeded(bins[k].files, per_file_overhead)

C2_Witness ==
    /\ pc = "done"
    /\ per_file_overhead > 0
    /\ reserve_bytes > 0
    /\ \E k \in DOMAIN bins :
          /\ Len(bins[k].files) >= 2
          /\ bins[k].used = effective_capacity(bins[k])

\* C3: whenever a new bin is opened for a file that passed the threshold
\* check, the new empty bin accepts the file (the "must fit" assertion holds).
C3_MustFit ==
    (/\ pc = "loop"
     /\ pos <= Len(files_sorted)
     /\ files_sorted[pos].size <= too_big_thresh
     /\ first_fit(bins, files_sorted[pos], per_file_overhead) = 0)
    => try_add(Bin(Len(bins) + 1, capacity, reserve_bytes), files_sorted[pos],
               per_file_overhead).ok

\* C4: a file of size exactly singleBinThreshold is accepted by an empty bin
\* and is not skipped; a file of size singleBinThreshold + 1 is put in the
\* skipped list and in no bin.
C4_Threshold ==
    /\ (/\ pc = "loop"
        /\ pos <= Len(files_sorted)
        /\ files_sorted[pos].size = too_big_thresh)
       => try_add(Bin(1, capacity, reserve_bytes), files_sorted[pos],
                  per_file_overhead).ok
    /\ \A fe \in Processed :
          /\ fe.size = too_big_thresh => (InSomeBin(fe) /\ fe \notin Range(skipped))
          /\ fe.size = too_big_thresh + 1 => (~InSomeBin(fe) /\ fe \in Range(skipped))

\* C5: a file placed into bin k found every bin of smaller index with remaining
\* capacity below size + per_file_overhead (a new bin is opened only when no
\* existing bin takes the file); so for bins i < j and any file f of bin j,
\* remaining(i) < f.size + per_file_overhead.
C5_FirstFitResult ==
    \A j \in DOMAIN bins : \A i \in 1..(j - 1) : \A f \in Range(bins[j].files) :
        remaining(bins[i]) < f.size + per_file_overhead

C5_FirstFitStep ==
    (pc = "loop" /\ bins' # bins) =>
        LET fe == files_sorted[pos]
            k == CHOOSE n \in DOMAIN bins' : n > Len(bins) \/ bins'[n] # bins[n]
        IN  /\ bins'[k].files = (IF k > Len(bins) THEN <<>> ELSE bins[k].files) \o <<fe>>
            /\ \A i \in 1..(k - 1) :
                  /\ bins'[i] = bins[i]
                  /\ remaining(bins[i]) < fe.size + per_file_overhead

\* C5: the first-fit rule, at every placement step and in every bin list.
C5_FirstFit == []C5_FirstFitResult /\ [][C5_FirstFitStep]_vars

C5_Witness ==
    /\ pc = "done"
    /\ Len(bins) >= 2
    /\ Len(bins[1].files) >= 2
    /\ remaining(bins[1]) > 0

\* C6 as claimed: with a capacity at least as large, the second call returns
\* no more bins than the first.
C6_BinsMonotone ==
    (runs = 2 /\ pc = "done") => Len(bins) <= Len(prev.bins)

\* C6 as amended: with a capacity at least as large, every file the second call
\* skips was skipped by the first call too, so the number of skipped files
\* never grows; the number of bins may grow.
C6_SkippedMonotone ==
    (runs = 2 /\ pc = "done") =>
        /\ Range(skipped) \subseteq Range(prev.skipped)
        /\ Len(skipped) <= Len(prev.skipped)

C6_Witness ==
    /\ runs = 2
    /\ pc = "done"
    /\ capacity > prev.capacity
    /\ Len(prev.skipped) >= 2
    /\ Len(skipped) = 1
    /\ Len(bins) > Len(prev.bins)

LastFile == bins[bi].files[fi - 1]

LastDestExisted ==
    \/ tree0.entries[Dest(bins[bi], LastFile)] # Absent
    \/ \E j \in 1..(fi - 2) : bins[bi].files[j].path.name = LastFile.path.name

\* C8: with a link_type that is none of symlink, hardlink, copy the error is
\* raised for every plan, and nothing of the staging tree has been created or
\* changed when it is raised.
C8_UnknownLinkTypeFirst ==
    link_type \notin Strategies =>
        /\ mpc # "returned"
        /\ mpc = "raised" => Tree = tree0

\* C9: for each strategy and any existing destination entry, the entry is
\* replaced by one of the kind the strategy produces, and the call does not
\* end in an error.
C9_ExistingReplaced ==
    link_type \in Strategies =>
        /\ mpc # "raised"
        /\ (mpc = "files" /\ fi > 1 /\ LastDestExisted)
              => entries[Dest(bins[bi], LastFile)] = Produced(link_type, LastFile.path)

\* C10: two calls in a row with the same plan, staging directory and strategy
\* both succeed, and the tree after the second is the tree after the first.
C10_Idempotent ==
    (/\ calls >= 2
     /\ mpc \in {"returned", "raised"}
     /\ link_type \in Strategies
     /\ prev_call.link_type = link_type)
    => /\ prev_call.outcome = "returned"
       /\ mpc = "returned"
       /\ Tree = tree0

\* C11: after a successful call into a fresh staging directory there is one
\* directory disc_NNN per bin (NNN the index in three digits, from 001), distinct
\* packed files have distinct destinations, and disc_NNN holds as many entries
\* as bin NNN has files.
EntriesIn(index) == {d \in DestPaths : d[1] = index /\ entries[d] # Absent}

C11_OneEntryPerFile ==
    (calls = 1 /\ mpc = "returned" /\ link_type \in Strategies) =>
        /\ disc_dirs = {bins[k].index : k \in DOMAIN bins}
        /\ {disc_name(i) : i \in disc_dirs} = {<<0, 0, k>> : k \in DOMAIN bins}
        /\ \A k \in DOMAIN bins :
              /\ Cardinality(EntriesIn(bins[k].index)) = Len(bins[k].files)
              /\ \A i, j \in DOMAIN bins[k].files :
                    i # j => Dest(bins[k], bins[k].files[i]) # Dest(bins[k], bins[k].files[j])

\* --------------------- packer properties, continued -------------------- *\
IsPrefix(s, t) == Len(s) <= Len(t) /\ \A i \in DOMAIN s : s[i] = t[i]

C15_IndicesAndNonEmpty ==
    \A k \in DOMAIN bins : bins[k].index = k /\ Len(bins[k].files) >= 1

C15_AppendOnlyStep ==
    pc = "loop" =>
        /\ Len(bins') >= Len(bins)
        /\ \A k \in DOMAIN bins :
              /\ bins'[k].index = bins[k].index
              /\ IsPrefix(bins[k].files, bins'[k].files)
        /\ IsPrefix(skipped, skipped')

\* C15: at every step the bins have the indices 1, 2, ..., m in list order and
\* hold at least one file each, and within a call the bin list, each bin's file
\* list and the skipped list only grow by appending.
C15_BinsAppendOnly == []C15_IndicesAndNonEmpty /\ [][C15_AppendOnlyStep]_vars

C15_Witness ==
    /\ pc = "done"
    /\ Len(bins) >= 2
    /\ \E k \in DOMAIN bins : Len(bins[k].files) >= 2

\* The position of an entry in the input list.
InputIndex(fe) == CHOOSE i \in DOMAIN files : files[i] = fe

NonIncreasing(s) == \A i \in 1..(Len(s) - 1) : s[i].size >= s[i + 1].size

TiesInInputOrder(s) ==
    \A i, j \in DOMAIN s :
        (i < j /\ s[i].size = s[j].size) => InputIndex(s[i]) < InputIndex(s[j])

\* C16: the files are processed by size descending with ties in input order,
\* so every bin's file sequence and the skipped sequence are non-increasing in
\* size and keep equal-sized files in their input order.
C16_SortedStable ==
    /\ pc \in {"loop", "done"} =>
          /\ Len(files_sorted) = Len(files)
          /\ Range(files_sorted) = Range(files)
          /\ NonIncreasing(files_sorted)
          /\ TiesInInputOrder(files_sorted)
    /\ NonIncreasing(skipped) /\ TiesInInputOrder(skipped)
    /\ \A k \in DOMAIN bins :
          NonIncreasing(bins[k].files) /\ TiesInInputOrder(bins[k].files)

C16_Witness ==
    /\ pc = "done"
    /\ \E k \in DOMAIN bins :
          \E i, j \in DOMAIN bins[k].files :
              /\ i < j
              /\ bins[k].files[i].size = bins[k].files[j].size
              /\ bins[k].files[1].size > bins[k].files[j].size
    /\ files[1].size < files[Len(files)].size

\* ---------------- materialiser properties, failing calls --------------- *\
\* The files of the plan before the failing one, as <<bin, file>> positions.
EarlierFiles ==
    {q \in (DOMAIN bins) \X (1..MaxMatFiles) :
        /\ q[2] <= Len(bins[q[1]].files)
        /\ q[1] < bi \/ (q[1] = bi /\ q[2] < fi)}

DestAt(q) == Dest(bins[q[1]], bins[q[1]].files[q[2]])

\* C17: a failure other than "destination exists" ends the call at once: no
\* later bin or file has been touched, and the directories and the entries made
\* for the files before the failing one are in the staging tree.
C17_StopsAtFirstError ==
    (mpc = "raised" /\ error = "OSError") =>
        /\ \A k \in DOMAIN bins :
              k > bi => (bins[k].index \in disc_dirs => bins[k].index \in tree0.dirs)
        /\ \A d \in DestPaths :
              (d # DestAt(<<bi, fi>>) /\ \A q \in EarlierFiles : d # DestAt(q))
                  => entries[d] = tree0.entries[d]
        /\ staging_exists
        /\ \A k \in 1..bi : bins[k].index \in disc_dirs
        /\ \A q \in EarlierFiles : entries[DestAt(q)] # Absent

\* ---------------------------- main properties -------------------------- *\
Scanned == "scan_files" \in Range(log)

OutputsTouched ==
    \/ outputs # NoOutputs
    \/ staging_exists
    \/ Range(log) \cap {"export_json", "export_csv", "materialise_plan"} # {}

\* C12: a run whose scan returns no file ends with status 2 without packing,
\* exporting or staging anything; a run whose scan returns a file and that
\* meets no error ends with status 0, also when every file is skipped.
C12_ExitStatus ==
    /\ (Scanned /\ main_pc # "scanned" /\ files = <<>>) =>
          /\ main_pc = "exited"
          /\ exit_status = 2
          /\ pc = "idle"
          /\ ~OutputsTouched
    /\ (main_pc = "exited" /\ Scanned /\ files # <<>>
            /\ pc = "done" /\ mpc # "raised") => exit_status = 0

C12_Witness ==
    /\ main_pc = "exited"
    /\ exit_status = 0
    /\ Len(files) = 2
    /\ bins = <<>>
    /\ Len(skipped) = 2
    /\ outputs.json # <<>>

SumSizes(fs) == SumNeeded(fs, 0)

\* C13 as claimed: in the export read back, the sizes listed under each bin
\* add up to the bin's used value, and the bins and skipped list as many files
\* as the result holds.
C13_RoundTripSizes ==
    outputs.json # <<>> =>
        LET data == outputs.json[1]
        IN  /\ Len(data.bins) = Len(bins)
            /\ Len(data.skipped) = Len(skipped)
            /\ \A k \in DOMAIN bins :
                  /\ Len(data.bins[k].files) = Len(bins[k].files)
                  /\ SumSizes(data.bins[k].files) = bins[k].used

\* C13 as amended: used_bytes is the bin's used value; the sizes listed under
\* a bin add up to used less per_file_overhead for each listed file (to used
\* itself when the overhead is 0); the file counts are those of the result.
C13_RoundTrip ==
    outputs.json # <<>> =>
        LET data == outputs.json[1]
        IN  /\ Len(data.bins) = Len(bins)
            /\ Len(data.skipped) = Len(skipped)
            /\ SumSizes(data.skipped) = SumSizes(skipped)
            /\ \A k \in DOMAIN bins :
                  /\ Len(data.bins[k].files) = Len(bins[k].files)
                  /\ data.bins[k].used_bytes = bins[k].used
                  /\ SumSizes(data.bins[k].files)
                        + per_file_overhead * Len(data.bins[k].files) = bins[k].used

C13_Witness ==
    /\ outputs.json # <<>>
    /\ per_file_overhead > 0
    /\ Len(outputs.json[1].skipped) = 1
    /\ \E k \in DOMAIN bins :
          /\ Len(outputs.json[1].bins[k].files) = 1
          /\ SumSizes(outputs.json[1].bins[k].files) < bins[k].used

\* The order main makes its calls in.
Rank(call) ==
    CASE call = "resolve_capacity" -> 1
      [] call = "scan_files" -> 2
      [] call = "first_fit_decreasing" -> 3
      [] call = "export_json" -> 4
      [] call = "export_csv" -> 5
      [] call = "materialise_plan" -> 6

ConfigError ==
    \/ args.profile \notin ProfileNames \cup {""}
    \/ args.unit \notin UnitNames
    \/ args.link_type \notin Strategies

\* C14: a configuration error or a failed placement assertion ends the run
\* with a status other than 0 and no output touched; the exports and the
\* materialisation happen only after capacity resolution, scan and packing
\* have completed, in the order JSON, CSV, materialisation.
C14_ErrorsBeforeOutputs ==
    /\ (ConfigError \/ pc = "AssertionError") =>
          /\ ~OutputsTouched
          /\ main_pc = "exited" => exit_status # 0
    /\ (main_pc = "exited" /\ exit_status = 0) => ~ConfigError /\ pc # "AssertionError"
    /\ OutputsTouched =>
          /\ pc = "done"
          /\ SubSeq(log, 1, 3) = <<"resolve_capacity", "scan_files", "first_fit_decreasing">>
    /\ \A i, j \in DOMAIN log : i < j => Rank(log[i]) < Rank(log[j])
    /\ outputs.json # <<>> => "export_json" \in Range(log)
    /\ outputs.csv # <<>> => "export_csv" \in Range(log)
    /\ staging_exists => "materialise_plan" \in Range(log)

C14_Witness ==
    /\ main_pc = "exited"
    /\ exit_status = 0
    /\ Len(log) = 6
    /\ outputs.json # <<>>
    /\ outputs.csv # <<>>
    /\ entries # tree0.entries

====
